---- MODULE Spec2Model ----
(***************************************************************************)
(* State-machine model of @nuka/state: BaseAtom, Atom, ReadonlyAtom, the    *)
(* eager and the lazy-recompute Projector and the Reactor, with the         *)
(* JavaScript timer table that Atom uses for its deferred updates.         *)
(*                                                                         *)
(* Every method is a function from a world (the record of all objects'     *)
(* fields) to the world after the call, so that a method which calls       *)
(* another method (set -> notifySubscribers -> Projector.update -> ...) is *)
(* one atomic step, as it is in single-threaded JavaScript.                *)
(***************************************************************************)
EXTENDS Integers, Sequences, FiniteSets, TLC

\* ------------------------------------------------------------------ bounds
MaxUpdates == 2
MaxSets == 1
MaxSubs == 1
MaxStarts == 2
MaxRoSets == 1
MaxStopCalls == 2
MaxList == 3
MaxNotes == 2

\* ---------------------------------------------------------------- universe
Atoms == {"a1", "a2"}
Observers == {"s1", "s2"}
NoOps == {"n1", "n2"}

\* Callbacks that change the subscriber list of the cell that calls them:
\* "unsubSelf" unsubscribes itself, "unsubS1" unsubscribes the observer
\* "s1" and "subS1" subscribes it.
Actors == {"unsubSelf", "unsubS1", "subS1"}
Target(actor) == IF actor = "unsubSelf" THEN actor ELSE "s1"

\* A subscriber that calls update(n => n + 1) on the cell that called it.
Updaters == {"updSelf"}
Vals == {0, 1}
Undefined == 0

\* An updater function n => f(n).  kind "add" is n => n + k, kind "const"
\* is _ => k.  re = TRUE is an updater that calls atom.update(n => n + 1)
\* on its own atom before it returns.
Inc == [kind |-> "add", n |-> 1, re |-> FALSE]
IncRe == [kind |-> "add", n |-> 1, re |-> TRUE]
UpdateFns == {Inc, IncRe}

\* An updater that throws when it is called: kind "throw".
Throw == [kind |-> "throw", n |-> 0, re |-> FALSE]

\* The argument of Atom.update: a plain value or an updater function.
UpdaterArgs ==
    {[type |-> "value", v |-> c] : c \in Vals} \cup
    {[type |-> "function", f |-> u] : u \in UpdateFns}

\* The names used with a Reactor: the keys of reaction mappings, a name that
\* no mapping has, and a name that every JavaScript object inherits.
ReactionNames == {"increment", "decrement"}
PrototypeNames == {"toString"}
UnknownNames == {"missing"} \cup PrototypeNames
Mappings == {<<>>, <<"increment">>, <<"increment", "decrement">>}
NameLists == {<<"increment">>, <<"decrement", "increment">>}

Apply(u, v) == IF u.kind = "add" THEN v + u.n ELSE u.n

RECURSIVE Fold(_, _)
Fold(us, v) == IF us = <<>> THEN v ELSE Fold(Tail(us), Apply(Head(us), v))

RECURSIVE Filter(_, _)
Filter(s, x) ==
    IF s = <<>> THEN <<>>
    ELSE IF Head(s) # x THEN <<Head(s)>> \o Filter(Tail(s), x)
    ELSE Filter(Tail(s), x)

RECURSIVE Count(_, _)
Count(s, x) ==
    IF s = <<>> THEN 0
    ELSE (IF Head(s) = x THEN 1 ELSE 0) + Count(Tail(s), x)

InSeq(s, x) == \E i \in 1..Len(s) : s[i] = x

\* ------------------------------------------------------------------- state
VARIABLES
    atom,       \* Atom objects: value, subscribers, updaterQueue, updateTimeout
    timers,     \* the timer table: pending setTimeout(runUpdate, 0) per atom
    timerSeq,   \* the last timer handle handed out by setTimeout
    ro,         \* the ReadonlyAtom: value, subscribers, start, stop, live
    proj,       \* the Projector
    reactor,    \* the Reactor
    lazy,       \* the Projector of the lazy-recompute variant
    outcome,    \* what the last call returned or threw
    env,        \* what the starter/stopper closures of the ReadonlyAtom did,
                \* and which calls the callers have made so far
    notified,   \* every subscriber call so far, in order
    gh,         \* per atom: calls made so far (history for the properties)
    op          \* the operation that produced this state

vars == <<atom, timers, timerSeq, ro, proj, reactor, lazy, outcome, env,
          notified, gh, op>>

\* A call that returns undefined and throws nothing.
\* A returned value is <<>> for undefined, <<"function", id>> for the closure
\* with identity id, <<"inherited", name>> for a function of
\* Object.prototype, and <<"mapping", pairs>> for an object of key / value
\* pairs.
NoOutcome == [thrown |-> "none", returned |-> <<>>]

World ==
    [atom |-> atom, timers |-> timers, timerSeq |-> timerSeq, ro |-> ro,
     proj |-> proj, reactor |-> reactor, lazy |-> lazy, outcome |-> NoOutcome,
     env |-> env, notified |-> notified, gh |-> gh]

Commit(w) ==
    /\ atom' = w.atom
    /\ timers' = w.timers
    /\ timerSeq' = w.timerSeq
    /\ ro' = w.ro
    /\ proj' = w.proj
    /\ reactor' = w.reactor
    /\ lazy' = w.lazy
    /\ outcome' = w.outcome
    /\ env' = w.env
    /\ notified' = w.notified
    /\ gh' = w.gh

\* ---------------------------------------------------------------- BaseAtom
\* The cells: the Atoms, "r" the ReadonlyAtom, "p" the Projector, "x" the
\* Reactor and "q" the Projector of the lazy-recompute variant.
Subscribers(w, cell) ==
    IF cell \in Atoms THEN w.atom[cell].subscribers
    ELSE IF cell = "r" THEN w.ro.subscribers
    ELSE IF cell = "x" THEN w.reactor.subscribers
    ELSE IF cell = "q" THEN w.lazy.subscribers
    ELSE w.proj.subscribers

RECURSIVE LazyProjector_get(_)

\* The world after `cell.value` has been read: only the getter of the lazy
\* Projector changes anything.
Read(w, cell) == IF cell = "q" THEN LazyProjector_get(w) ELSE w

\* The value getter; the Reactor overrides it and forwards its atom's
\* value, the lazy Projector returns the value it holds after the read.
Value(w, cell) ==
    IF cell \in Atoms THEN w.atom[cell].value
    ELSE IF cell = "r" THEN w.ro.value
    ELSE IF cell = "x" THEN w.atom[w.reactor.atom].value
    ELSE IF cell = "q" THEN LazyProjector_get(w).outcome.returned[2]
    ELSE w.proj.value

WithSubscribers(w, cell, subs) ==
    IF cell \in Atoms THEN [w EXCEPT !.atom[cell].subscribers = subs]
    ELSE IF cell = "r" THEN [w EXCEPT !.ro.subscribers = subs]
    ELSE IF cell = "x" THEN [w EXCEPT !.reactor.subscribers = subs]
    ELSE IF cell = "q" THEN [w EXCEPT !.lazy.subscribers = subs]
    ELSE [w EXCEPT !.proj.subscribers = subs]

\* The value of the lazy Projector is <<>> for undefined and <<v>> for v.
setValue(w, cell, newValue) ==
    IF cell \in Atoms THEN [w EXCEPT !.atom[cell].value = newValue]
    ELSE IF cell = "r" THEN [w EXCEPT !.ro.value = newValue]
    ELSE IF cell = "x" THEN [w EXCEPT !.reactor.base = newValue]
    ELSE IF cell = "q" THEN [w EXCEPT !.lazy.value = newValue]
    ELSE [w EXCEPT !.proj.value = newValue]

hasSubscribers(w, cell) == Len(Subscribers(w, cell)) > 0

\* subscribe that does not register a callback twice.
BaseAtom_subscribe_unique(w, cell, subscriber) ==
    IF InSeq(Subscribers(w, cell), subscriber) THEN w
    ELSE WithSubscribers(w, cell, Append(Subscribers(w, cell), subscriber))

BaseAtom_subscribe(w, cell, subscriber) ==
    WithSubscribers(w, cell, Append(Subscribers(w, cell), subscriber))

\* unsubscribe that removes the first occurrence only.
BaseAtom_unsubscribe_firstOnly(w, cell, subscriber) ==
    LET subs == Subscribers(w, cell)
    IN  IF ~InSeq(subs, subscriber) THEN w
        ELSE LET i == CHOOSE k \in 1..Len(subs) :
                          /\ subs[k] = subscriber
                          /\ \A j \in 1..(k - 1) : subs[j] # subscriber
             IN  WithSubscribers(w, cell,
                     SubSeq(subs, 1, i - 1) \o SubSeq(subs, i + 1, Len(subs)))

\* `if (null)` is never taken, so the filter always runs.
BaseAtom_unsubscribe(w, cell, subscriber) ==
    WithSubscribers(w, cell, Filter(Subscribers(w, cell), subscriber))

\* The projection of the model: a weighted sum, so that both the values and
\* the order of the arguments matter.
RECURSIVE Weighted(_, _)
Weighted(args, i) ==
    IF i > Len(args) THEN 0 ELSE i * args[i] + Weighted(args, i + 1)

Projection(args) == Weighted(args, 1)

SourceValues(w) == [i \in 1..Len(w.proj.allAtoms) |-> Value(w, w.proj.allAtoms[i])]

\* What an Atom holds at the moment one of its subscribers is called: the
\* length of #updaterQueue and the number of its timers still pending.
QueueLength(w, cell) ==
    IF cell \in Atoms THEN Len(w.atom[cell].updaterQueue) ELSE 0

PendingTimers(w, cell) ==
    IF cell \in Atoms THEN Cardinality(w.timers[cell]) ELSE 0

\* notifySubscribers: forEach over the subscriber array as it is when the
\* pass starts.  An observer records the value it reads (and the state of
\* the cell at that moment), a noOp subscriber does nothing, "upd" is the
\* Projector's update handler and "fwd" is the Reactor's subscriber, which
\* notifies the subscribers of the Reactor.
RECURSIVE NotifyEach(_, _, _)
RECURSIVE Projector_update(_)
RECURSIVE LazyProjector_update(_)
RECURSIVE Atom_update(_, _, _)

\* The body of an actor, called by cell.
Act(w, actor, cell) ==
    IF actor \in Updaters THEN Atom_update(w, cell, [type |-> "function", f |-> Inc])
    ELSE IF actor = "subS1" THEN BaseAtom_subscribe(w, cell, Target(actor))
    ELSE BaseAtom_unsubscribe(w, cell, Target(actor))

Callback(w, subscriber, cell) ==
    IF subscriber = "upd" THEN Projector_update(w)
    ELSE IF subscriber = "fwd" THEN NotifyEach(w, "x", Subscribers(w, "x"))
    ELSE IF subscriber = "inv" THEN LazyProjector_update(w)
    ELSE IF subscriber \in NoOps THEN w
    ELSE LET w1 == [Read(w, cell) EXCEPT !.notified =
                      Append(@, [cb |-> subscriber, cell |-> cell,
                                 val |-> Value(w, cell),
                                 queue |-> QueueLength(w, cell),
                                 pending |-> PendingTimers(w, cell)])]
         IN  IF subscriber \in Actors \cup Updaters
             THEN Act(w1, subscriber, cell) ELSE w1

\* A pass that walks the list as it is at each call, by position, instead of
\* the array that forEach started on.
RECURSIVE NotifyEach_live(_, _, _)
NotifyEach_live(w, cell, subs) ==
    IF subs = <<>> THEN w
    ELSE LET i == Len(Subscribers(w, cell)) - Len(subs) + 1
             w1 == Callback(w, Head(subs), cell)
             live == Subscribers(w1, cell)
         IN  NotifyEach_live(w1, cell, SubSeq(live, i + 1, Len(live)))

\* A pass that does not call a callback that is no longer in the list.
RECURSIVE NotifyEach_skipsRemoved(_, _, _)
NotifyEach_skipsRemoved(w, cell, subs) ==
    IF subs = <<>> THEN w
    ELSE IF ~InSeq(Subscribers(w, cell), Head(subs))
    THEN NotifyEach_skipsRemoved(w, cell, Tail(subs))
    ELSE NotifyEach_skipsRemoved(Callback(w, Head(subs), cell), cell, Tail(subs))

\* forEach walks the array that #subscribers held when the pass began, up to
\* the length it had then: unsubscribe puts a new array into #subscribers
\* and leaves that one alone, and an entry pushed by subscribe lies beyond
\* that length.
NotifyEach(w, cell, subs) ==
    IF subs = <<>> THEN w
    ELSE NotifyEach(Callback(w, Head(subs), cell), cell, Tail(subs))

notifySubscribers(w, cell) == NotifyEach(w, cell, Subscribers(w, cell))

Projector_update(w) ==
    notifySubscribers(setValue(w, "p", Projection(SourceValues(w))), "p")

\* -------------------------------------------------------------------- Atom
setTimeout(w, a) ==
    [w EXCEPT !.timerSeq = @ + 1,
              !.timers[a] = @ \cup {w.timerSeq + 1},
              !.atom[a].updateTimeout = w.timerSeq + 1]

\* queueUpdate that puts the new updater at the front of the queue.
Atom_queueUpdate_prepends(w, a, updater) ==
    LET w1 == [w EXCEPT !.atom[a].updaterQueue = <<updater>> \o @,
                        !.gh[a].submitted = Append(@, updater),
                        !.gh[a].late = @ \/ w.gh[a].ticks > 0,
                        !.gh[a].sinceSet = @ + 1]
    IN  IF w1.atom[a].updateTimeout = Undefined THEN setTimeout(w1, a) ELSE w1

Atom_queueUpdate(w, a, updater) ==
    LET w1 == [w EXCEPT !.atom[a].updaterQueue = Append(@, updater),
                        !.gh[a].submitted = Append(@, updater),
                        !.gh[a].late = @ \/ w.gh[a].ticks > 0,
                        !.gh[a].sinceSet = @ + 1]
    IN  IF w1.atom[a].updateTimeout = Undefined THEN setTimeout(w1, a) ELSE w1

\* update that also applies the updater before it returns.
Atom_update_appliesNow(w, a, updater) ==
    LET newUpdater ==
            IF updater.type # "function"
            THEN [kind |-> "const", n |-> updater.v, re |-> FALSE]
            ELSE updater.f
    IN  setValue(Atom_queueUpdate(w, a, newUpdater), a,
                 Apply(newUpdater, w.atom[a].value))

Atom_update(w, a, updater) ==
    LET newUpdater ==
            IF updater.type # "function"
            THEN [kind |-> "const", n |-> updater.v, re |-> FALSE]
            ELSE updater.f
    IN  Atom_queueUpdate(w, a, newUpdater)

\* clearUpdateQueue that cancels the timer but forgets to empty the queue.
Atom_clearUpdateQueue_keepsQueue(w, a) ==
    IF w.atom[a].updateTimeout # Undefined
    THEN [w EXCEPT !.timers[a] = @ \ {w.atom[a].updateTimeout},
                   !.atom[a].updateTimeout = Undefined]
    ELSE w

Atom_clearUpdateQueue(w, a) ==
    LET w1 == IF w.atom[a].updateTimeout # Undefined
              THEN [w EXCEPT !.timers[a] = @ \ {w.atom[a].updateTimeout},
                             !.atom[a].updateTimeout = Undefined]
              ELSE w
    IN  [w1 EXCEPT !.atom[a].updaterQueue = <<>>]

Atom_set(w, a, value) ==
    LET w1 == Atom_clearUpdateQueue(w, a)
        w2 == setValue(w1, a, value)
        w3 == [w2 EXCEPT !.gh[a].sets = @ + 1,
                         !.gh[a].lastSet = value,
                         !.gh[a].dropped = Len(w.atom[a].updaterQueue),
                         !.gh[a].sinceSet = 0,
                         !.gh[a].ticksSinceSet = 0]
    IN  notifySubscribers(w3, a)

\* The body of one updater call: the updater reads the value it was given,
\* then (if it is re-entrant) calls update on its own atom, then returns.
CallUpdater(w, a, updater) ==
    IF updater.re THEN Atom_update(w, a, [type |-> "function", f |-> Inc]) ELSE w

\* runUpdate that takes the newest updater of the queue instead of the oldest.
Atom_runUpdate_newestFirst(w, a) ==
    LET w1 == [w EXCEPT !.atom[a].updateTimeout = Undefined,
                        !.gh[a].ticks = @ + 1,
                        !.gh[a].ticksSinceSet = IF @ = 0 THEN 1 ELSE @]
        queue == w1.atom[a].updaterQueue
        w2 == IF queue = <<>> THEN w1
              ELSE LET updater == queue[Len(queue)]
                       arg == w1.atom[a].value
                       w1a == [w1 EXCEPT !.atom[a].updaterQueue =
                                 SubSeq(queue, 1, Len(queue) - 1)]
                       w1b == CallUpdater(w1a, a, updater)
                   IN  IF updater.kind = "throw"
                       THEN [w1a EXCEPT !.outcome.thrown = "Error"]
                       ELSE setValue(w1b, a, Apply(updater, arg))
    IN  IF w2.outcome.thrown # "none" THEN w2
        ELSE IF Len(w2.atom[a].updaterQueue) > 0 THEN setTimeout(w2, a) ELSE w2

\* runUpdate that never schedules the next deferred execution.
Atom_runUpdate_noReschedule(w, a) ==
    LET w1 == [w EXCEPT !.atom[a].updateTimeout = Undefined,
                        !.gh[a].ticks = @ + 1,
                        !.gh[a].ticksSinceSet = IF @ = 0 THEN 1 ELSE @]
        queue == w1.atom[a].updaterQueue
    IN  IF queue = <<>> THEN w1
        ELSE LET updater == Head(queue)
                 arg == w1.atom[a].value
                 w1a == [w1 EXCEPT !.atom[a].updaterQueue = Tail(queue)]
                 w1b == CallUpdater(w1a, a, updater)
             IN  IF updater.kind = "throw"
                 THEN [w1a EXCEPT !.outcome.thrown = "Error"]
                 ELSE setValue(w1b, a, Apply(updater, arg))

Atom_runUpdate(w, a) ==
    LET w1 == [w EXCEPT !.atom[a].updateTimeout = Undefined,
                        !.gh[a].ticks = @ + 1,
                        !.gh[a].ticksSinceSet = IF @ = 0 THEN 1 ELSE @]
        queue == w1.atom[a].updaterQueue
        w2 == IF queue = <<>> THEN w1
              ELSE LET updater == Head(queue)
                       arg == w1.atom[a].value
                       w1a == [w1 EXCEPT !.atom[a].updaterQueue = Tail(queue)]
                       w1b == CallUpdater(w1a, a, updater)
                   IN  IF updater.kind = "throw"
                       THEN [w1a EXCEPT !.outcome.thrown = "Error"]
                       ELSE setValue(w1b, a, Apply(updater, arg))
    IN  IF w2.outcome.thrown # "none" THEN w2
        ELSE IF Len(w2.atom[a].updaterQueue) > 0 THEN setTimeout(w2, a) ELSE w2

\* ------------------------------------------------------------ ReadonlyAtom
\* `this.#stop = this.#start(this.setter)`: the starter begins a new
\* activation; a starter of kind "stopper" returns the stopper of that
\* activation, a starter of kind "void" returns undefined.
\* A starter of kind "sync" is set => { set(1); return stopper }: it calls
\* the setter before it returns.
RECURSIVE ReadonlyAtom_setter(_, _)

CallStart(w) ==
    LET id == Len(w.env.stopCalls) + 1
        w1 == [w EXCEPT !.env.running = @ \cup {id},
                        !.env.stopCalls = Append(@, 0)]
        w2 == IF w.ro.start = "sync" THEN ReadonlyAtom_setter(w1, 1) ELSE w1
    IN  [w2 EXCEPT !.ro.stop = IF w.ro.start \in {"stopper", "sync"}
                               THEN id ELSE Undefined]

\* `this.#stop()`: the stopper held in #stop is called; it ends its
\* activation.  The field #stop itself is not reassigned.
CallStop(w) ==
    [w EXCEPT !.env.running = @ \ {w.ro.stop},
              !.env.stopCalls[w.ro.stop] = @ + 1]

\* setLive without the early return for an unchanged flag.
ReadonlyAtom_setLive_alwaysRuns(w, isLive) ==
    LET w1 == IF w.ro.live /\ ~hasSubscribers(w, "r") /\ w.ro.stop # Undefined
              THEN CallStop(w) ELSE w
        w2 == IF ~w1.ro.live /\ w1.ro.start # "none"
              THEN CallStart(w1) ELSE w1
    IN  [w2 EXCEPT !.ro.live = isLive]

ReadonlyAtom_setLive(w, isLive) ==
    IF w.ro.live = isLive THEN w
    ELSE LET w1 == IF w.ro.live /\ ~hasSubscribers(w, "r") /\ w.ro.stop # Undefined
                   THEN CallStop(w) ELSE w
             w2 == IF ~w1.ro.live /\ w1.ro.start # "none"
                   THEN CallStart(w1) ELSE w1
         IN  [w2 EXCEPT !.ro.live = isLive]

\* subscribe that registers the subscriber also when there is no starter.
ReadonlyAtom_subscribe_withoutStarter(w, subscriber) ==
    LET w1 == IF ~hasSubscribers(w, "r") /\ ~w.ro.live /\ w.ro.start # "none"
              THEN CallStart(w) ELSE w
    IN  BaseAtom_subscribe(w1, "r", subscriber)

\* subscribe that registers the subscriber before it runs the starter.
ReadonlyAtom_subscribe_registersFirst(w, subscriber) ==
    IF w.ro.start = "none" THEN w
    ELSE LET w1 == BaseAtom_subscribe(w, "r", subscriber)
         IN  IF ~hasSubscribers(w, "r") /\ ~w.ro.live
             THEN CallStart(w1) ELSE w1

ReadonlyAtom_subscribe(w, subscriber) ==
    IF w.ro.start = "none" THEN w
    ELSE LET w1 == IF ~hasSubscribers(w, "r") /\ ~w.ro.live
                   THEN CallStart(w) ELSE w
         IN  BaseAtom_subscribe(w1, "r", subscriber)

\* unsubscribe that stops the source without looking at the live flag.
ReadonlyAtom_unsubscribe_ignoresLive(w, subscriber) ==
    IF w.ro.start = "none" THEN w
    ELSE LET w1 == BaseAtom_unsubscribe(w, "r", subscriber)
         IN  IF ~hasSubscribers(w1, "r") /\ w1.ro.stop # Undefined
             THEN CallStop(w1) ELSE w1

ReadonlyAtom_unsubscribe(w, subscriber) ==
    IF w.ro.start = "none" THEN w
    ELSE LET w1 == BaseAtom_unsubscribe(w, "r", subscriber)
         IN  IF ~hasSubscribers(w1, "r") /\ w1.ro.stop # Undefined /\ ~w1.ro.live
             THEN CallStop(w1) ELSE w1

ReadonlyAtom_setter(w, value) ==
    notifySubscribers(setValue(w, "r", value), "r")

\* --------------------------------------------------------------- Projector
ConstructorName(cell) ==
    IF cell \in Atoms THEN "Atom"
    ELSE IF cell = "r" THEN "ReadonlyAtom"
    ELSE IF cell = "x" THEN "Reactor"
    ELSE "Projector"

isReadonlyAtom(cell) == ConstructorName(cell) = "ReadonlyAtom"

\* atom.subscribe / atom.unsubscribe on a source, dispatched on its class.
Cell_subscribe(w, cell, subscriber) ==
    IF isReadonlyAtom(cell) THEN ReadonlyAtom_subscribe(w, subscriber)
    ELSE BaseAtom_subscribe(w, cell, subscriber)

Cell_unsubscribe(w, cell, subscriber) ==
    IF isReadonlyAtom(cell) THEN ReadonlyAtom_unsubscribe(w, subscriber)
    ELSE BaseAtom_unsubscribe(w, cell, subscriber)

RECURSIVE SubscribeEach(_, _)
SubscribeEach(w, cells) ==
    IF cells = <<>> THEN w
    ELSE SubscribeEach(Cell_subscribe(w, Head(cells), "upd"), Tail(cells))

RECURSIVE UnsubscribeEach(_, _)
UnsubscribeEach(w, cells) ==
    IF cells = <<>> THEN w
    ELSE UnsubscribeEach(Cell_unsubscribe(w, Head(cells), "upd"), Tail(cells))

RECURSIVE Partition(_, _)
Partition(cells, readonly) ==
    IF cells = <<>> THEN <<>>
    ELSE IF isReadonlyAtom(Head(cells)) = readonly
    THEN <<Head(cells)>> \o Partition(Tail(cells), readonly)
    ELSE Partition(Tail(cells), readonly)

\* subscribeToReadonlyAtoms that does not ask whether there are subscribers.
Projector_subscribeToReadonlyAtoms_always(w) ==
    IF /\ Len(w.proj.readonlyAtoms) > 0
       /\ ~w.proj.subscribedToReadonlyAtoms
    THEN SubscribeEach([w EXCEPT !.proj.subscribedToReadonlyAtoms = TRUE],
                       w.proj.readonlyAtoms)
    ELSE w

Projector_subscribeToReadonlyAtoms(w) ==
    IF /\ Len(w.proj.readonlyAtoms) > 0
       /\ hasSubscribers(w, "p")
       /\ ~w.proj.subscribedToReadonlyAtoms
    THEN SubscribeEach([w EXCEPT !.proj.subscribedToReadonlyAtoms = TRUE],
                       w.proj.readonlyAtoms)
    ELSE w

Projector_unsubscribeFromReadonlyAtoms(w) ==
    IF ~w.proj.subscribedToReadonlyAtoms THEN w
    ELSE [UnsubscribeEach(w, w.proj.readonlyAtoms)
            EXCEPT !.proj.subscribedToReadonlyAtoms = FALSE]

Projector_unsubscribeFromAtoms(w) ==
    [UnsubscribeEach(w, w.proj.allAtoms)
       EXCEPT !.proj.subscribedToReadonlyAtoms = FALSE]

\* subscribeToAtoms that does not unsubscribe from the atoms first.
Projector_subscribeToAtoms_noReset(w) ==
    Projector_subscribeToReadonlyAtoms(SubscribeEach(w, w.proj.regularAtoms))

Projector_subscribeToAtoms(w) ==
    LET w1 == Projector_unsubscribeFromAtoms(w)
        w2 == SubscribeEach(w1, w1.proj.regularAtoms)
    IN  Projector_subscribeToReadonlyAtoms(w2)

Projector_subscribe(w, subscriber) ==
    Projector_subscribeToReadonlyAtoms(BaseAtom_subscribe(w, "p", subscriber))

\* unsubscribe that leaves the handler on the ReadonlyAtom sources.
Projector_unsubscribe_keepsReadonly(w, subscriber) ==
    BaseAtom_unsubscribe(w, "p", subscriber)

Projector_unsubscribe(w, subscriber) ==
    Projector_unsubscribeFromReadonlyAtoms(BaseAtom_unsubscribe(w, "p", subscriber))

Projector_constructor(w, atoms) ==
    LET w1 == [w EXCEPT !.proj =
                 [built |-> TRUE,
                  value |-> Projection([i \in 1..Len(atoms) |-> Value(w, atoms[i])]),
                  subscribers |-> <<>>,
                  allAtoms |-> atoms,
                  regularAtoms |-> Partition(atoms, FALSE),
                  readonlyAtoms |-> Partition(atoms, TRUE),
                  subscribedToReadonlyAtoms |-> FALSE]]
    IN  Projector_subscribeToAtoms(w1)

\* ------------------------------------------- Projector, lazy-recompute variant
LazySourceValues(w) ==
    [i \in 1..Len(w.lazy.allAtoms) |-> Value(w, w.lazy.allAtoms[i])]

\* A getter that projects and does not keep the result.
LazyProjector_get_noCache(w) ==
    IF w.lazy.value = <<>>
    THEN [w EXCEPT !.lazy.projected = @ + 1, !.lazy.sinceRead = FALSE,
                   !.outcome.returned = <<"value", Projection(LazySourceValues(w))>>]
    ELSE [w EXCEPT !.lazy.sinceRead = FALSE,
                   !.outcome.returned = <<"value", w.lazy.value[1]>>]

\* `get value`: an undefined stored value is replaced by the projection of
\* the current source values (lazy.projected counts the calls of the
\* projection function); the stored value is returned.  lazy.sinceRead
\* tells that value has not been read since the update handler last ran
\* (or since construction).
LazyProjector_get(w) ==
    IF w.lazy.value = <<>>
    THEN LET currentValue == Projection(LazySourceValues(w))
             w1 == [w EXCEPT !.lazy.projected = @ + 1,
                             !.lazy.sinceRead = FALSE,
                             !.outcome.returned = <<"value", currentValue>>]
         IN  setValue(w1, "q", <<currentValue>>)
    ELSE [w EXCEPT !.lazy.sinceRead = FALSE,
                   !.outcome.returned = <<"value", w.lazy.value[1]>>]

\* The getter of the eager Projector is BaseAtom's: it returns #value.
Projector_get(w) == [w EXCEPT !.outcome.returned = <<"value", w.proj.value>>]

LazyProjector_update(w) ==
    notifySubscribers([setValue(w, "q", <<>>) EXCEPT !.lazy.sinceRead = TRUE], "q")

RECURSIVE LazySubscribeEach(_, _)
LazySubscribeEach(w, cells) ==
    IF cells = <<>> THEN w
    ELSE LazySubscribeEach(Cell_subscribe(w, Head(cells), "inv"), Tail(cells))

RECURSIVE LazyUnsubscribeEach(_, _)
LazyUnsubscribeEach(w, cells) ==
    IF cells = <<>> THEN w
    ELSE LazyUnsubscribeEach(Cell_unsubscribe(w, Head(cells), "inv"), Tail(cells))

LazyProjector_unsubscribeFromAtoms(w) ==
    IF ~w.lazy.subscribed THEN w
    ELSE [LazyUnsubscribeEach(w, w.lazy.allAtoms) EXCEPT !.lazy.subscribed = FALSE]

LazyProjector_subscribeToAtoms(w) ==
    IF w.lazy.subscribed THEN w
    ELSE [LazySubscribeEach(w, w.lazy.allAtoms) EXCEPT !.lazy.subscribed = TRUE]

LazyProjector_constructor(w, atoms) ==
    LET w1 == [w EXCEPT !.lazy =
                 [built |-> TRUE, value |-> <<>>, subscribers |-> <<>>,
                  allAtoms |-> atoms, subscribed |-> FALSE,
                  projected |-> 0, sinceRead |-> TRUE]]
    IN  LazyProjector_subscribeToAtoms(w1)

NoLazyProjector ==
    [built |-> FALSE, value |-> <<>>, subscribers |-> <<>>, allAtoms |-> <<>>,
     subscribed |-> FALSE, projected |-> 0, sinceRead |-> FALSE]

\* ----------------------------------------------------------------- Reactor
\* The reaction mutations (value, ...args) => newValue of the model.
Mutate(key, value) == IF key = "increment" THEN value + 1 ELSE value - 1

\* `this.#reactions[reactionName]`: #reactions is a plain object, so a name
\* that is not one of its own keys is looked up on Object.prototype, where
\* "toString" is a function; any other name gives undefined.
Reactor_lookup(w, reactionName) ==
    IF InSeq(w.reactor.reactionKeys, reactionName) THEN "reaction"
    ELSE IF reactionName \in PrototypeNames THEN "inherited"
    ELSE "undefined"

\* The function that wrapReaction returns, called: the mutation is applied
\* to the atom's current value and the result is given to update.
\* A wrapped reaction that queues the mutation itself, to be applied to
\* the value that the atom has when the deferred tick runs.
Reactor_wrapReaction_atTick(w, key) ==
    LET value == w.atom[w.reactor.atom].value
        w1 == [w EXCEPT !.env.lastReact = [key |-> key, value |-> value]]
    IN  Atom_update(w1, w.reactor.atom,
                    [type |-> "function",
                     f |-> [kind |-> "add", n |-> Mutate(key, 0), re |-> FALSE]])

Reactor_wrapReaction(w, key) ==
    LET value == w.atom[w.reactor.atom].value
        newValue == Mutate(key, value)
        w1 == [w EXCEPT !.env.lastReact = [key |-> key, value |-> value]]
    IN  Atom_update(w1, w.reactor.atom, [type |-> "value", v |-> newValue])

\* Calling what the lookup gave: undefined is not a function (TypeError),
\* Object.prototype.toString returns a string that react throws away.
Reactor_react(w, reactionName) ==
    LET reaction == Reactor_lookup(w, reactionName)
    IN  IF reaction = "reaction" THEN Reactor_wrapReaction(w, reactionName)
        ELSE IF reaction = "inherited" THEN w
        ELSE [w EXCEPT !.outcome.thrown = "TypeError"]

\* The position of key in the sequence of keys.
IndexOf(keys, key) == CHOOSE i \in 1..Len(keys) : keys[i] = key

\* The value of `this.#reactions[reactionName]`.
Reactor_reaction(w, reactionName) ==
    LET reaction == Reactor_lookup(w, reactionName)
    IN  IF reaction = "reaction"
        THEN <<"function",
               w.reactor.reactions[IndexOf(w.reactor.reactionKeys, reactionName)]>>
        ELSE IF reaction = "inherited" THEN <<"inherited", reactionName>>
        ELSE <<>>

\* The extracted functions are remembered per key in env.extracted.
Remember(w, reactionName, fn) ==
    IF reactionName \in ReactionNames /\ fn # <<>>
    THEN [w EXCEPT !.env.extracted[reactionName] = @ \cup {fn[2]}]
    ELSE w

\* extract that wraps the reaction again on every call.
Reactor_extract_wrapsAgain(w, reactionName) ==
    LET fn == IF Reactor_lookup(w, reactionName) = "reaction"
              THEN <<"function", w.env.closures + 1>>
              ELSE Reactor_reaction(w, reactionName)
        w1 == [w EXCEPT !.env.closures = @ + 1]
    IN  [Remember(w1, reactionName, fn) EXCEPT !.outcome.returned = fn]

Reactor_extract(w, reactionName) ==
    LET fn == Reactor_reaction(w, reactionName)
    IN  [Remember(w, reactionName, fn) EXCEPT !.outcome.returned = fn]

\* mapping[key] = this.extract(key) for each requested key, in order.  What
\* these inner calls return is kept in the mapping only, env.extracted
\* remembers the results of the caller's own extract calls.
RECURSIVE Reactor_multiExtractEach(_, _, _)
Reactor_multiExtractEach(w, reactionNames, mapping) ==
    IF reactionNames = <<>>
    THEN [w EXCEPT !.outcome.returned = <<"mapping", mapping>>]
    ELSE LET key == Head(reactionNames)
             w1 == Reactor_extract(w, key)
         IN  Reactor_multiExtractEach(
                 [w1 EXCEPT !.env.extracted = w.env.extracted],
                 Tail(reactionNames),
                 Append(mapping, <<key, w1.outcome.returned>>))

Reactor_multiExtract(w, reactionNames) ==
    Reactor_multiExtractEach(w, reactionNames, <<>>)

Reactor_releaseAtom(w) ==
    BaseAtom_unsubscribe([w EXCEPT !.env.released = TRUE], w.reactor.atom, "fwd")

\* `this.#reactions[key] = this.wrapReaction(reaction)` for every key: each
\* call of wrapReaction makes a new closure, with an identity of its own.
Wrapped(w, keys) == [i \in 1..Len(keys) |-> w.env.closures + i]

\* The constructor that subscribes to the atom before it looks at the keys.
Reactor_constructor_subscribesFirst(w, a, keys) ==
    LET w1 == BaseAtom_subscribe(w, a, "fwd")
    IN  IF Len(keys) < 1
        THEN [w1 EXCEPT !.outcome.thrown = "TypeError"]
        ELSE [w1 EXCEPT !.reactor =
                [built |-> TRUE, base |-> w.atom[a].value, atom |-> a,
                 reactionKeys |-> keys, reactions |-> Wrapped(w, keys),
                 subscribers |-> <<>>],
                        !.env.closures = @ + Len(keys)]

\* A constructor that throws produces no object.
Reactor_constructor(w, a, keys) ==
    IF Len(keys) < 1
    THEN [w EXCEPT !.outcome.thrown = "TypeError"]
    ELSE LET w1 == [w EXCEPT !.reactor =
                      [built |-> TRUE, base |-> w.atom[a].value, atom |-> a,
                       reactionKeys |-> keys, reactions |-> Wrapped(w, keys),
                       subscribers |-> <<>>],
                              !.env.closures = @ + Len(keys)]
         IN  BaseAtom_subscribe(w1, a, "fwd")

\* The projector factory of index.ts, called with the atoms followed by the
\* projection function: args.length is Len(atoms) + 1.
projector(w, atoms) ==
    IF Len(atoms) + 1 < 2
    THEN [w EXCEPT !.outcome.thrown = "TypeError"]
    ELSE Projector_constructor(w, atoms)

\* ------------------------------------------------------------ construction
NewAtom(v) ==
    [value |-> v, subscribers |-> <<>>, updaterQueue |-> <<>>,
     updateTimeout |-> Undefined]

NewGhost(v) ==
    [init |-> v, submitted |-> <<>>, sets |-> 0, lastSet |-> 0, dropped |-> 0,
     sinceSet |-> 0, ticks |-> 0, ticksSinceSet |-> 0, late |-> FALSE,
     subOps |-> 0]

NewReadonlyAtom(v, start) ==
    [built |-> TRUE, value |-> v, subscribers |-> <<>>, start |-> start,
     stop |-> Undefined, live |-> FALSE]

NoReadonlyAtom ==
    [built |-> FALSE, value |-> 0, subscribers |-> <<>>, start |-> "none",
     stop |-> Undefined, live |-> FALSE]

NoProjector ==
    [built |-> FALSE, value |-> 0, subscribers |-> <<>>, allAtoms |-> <<>>,
     regularAtoms |-> <<>>, readonlyAtoms |-> <<>>,
     subscribedToReadonlyAtoms |-> FALSE]

NoReactor ==
    [built |-> FALSE, base |-> 0, atom |-> "a1", reactionKeys |-> <<>>,
     reactions |-> <<>>, subscribers |-> <<>>]

Starters == {"none", "stopper", "void"}

Init ==
    /\ atom = [a \in Atoms |-> NewAtom(0)]
    /\ gh = [a \in Atoms |-> NewGhost(0)]
    /\ timers = [a \in Atoms |-> {}]
    /\ timerSeq = 0
    /\ ro = NoReadonlyAtom
    /\ proj = NoProjector
    /\ reactor = NoReactor
    /\ lazy = NoLazyProjector
    /\ outcome = NoOutcome
    /\ env = [running |-> {}, stopCalls |-> <<>>, sets |-> 0, direct |-> FALSE,
              hadSubscriber |-> FALSE, released |-> FALSE, detached |-> FALSE,
              closures |-> 0,
              arg |-> "none",
              extracted |-> [k \in ReactionNames |-> {}],
              lastReact |-> [key |-> "none", value |-> 0]]
    /\ notified = <<>>
    /\ op = [name |-> "new", cell |-> "a1", n |-> 0]

\* ------------------------------------------------------------ Atom actions
\* The calls made so far on all atoms together.
UpdateCalls == Len(gh["a1"].submitted) + Len(gh["a2"].submitted)

SetCalls == gh["a1"].sets + gh["a2"].sets

AtomUpdate(a, updater) ==
    /\ UpdateCalls < MaxUpdates
    /\ Commit(Atom_update(World, a, updater))
    /\ op' = [name |-> "update", cell |-> a, n |-> 0]

\* set on an Atom while fewer than limit set calls have been made.
AtomSetUpTo(a, v, limit) ==
    /\ SetCalls < limit
    /\ Commit(Atom_set(World, a, v))
    /\ op' = [name |-> "set", cell |-> a,
              n |-> Len(Atom_set(World, a, v).notified) - Len(notified)]

AtomSet(a, v) == AtomSetUpTo(a, v, MaxSets)

\* A pending timer fires: it leaves the timer table and runUpdate runs.
AtomTick(a, t) ==
    /\ t \in timers[a]
    /\ Commit(Atom_runUpdate([World EXCEPT !.timers[a] = @ \ {t}], a))
    /\ op' = [name |-> "tick", cell |-> a, n |-> 0]

SubOps(a) == IF gh[a].submitted = <<>> THEN gh[a].subOps ELSE 1

\* subscribe on an Atom whose list is shorter than limit; env.arg keeps the
\* argument of the last subscribe or unsubscribe call on an Atom.
AtomSubscribeUpTo(a, s, limit) ==
    /\ Len(atom[a].subscribers) < limit
    /\ Commit([BaseAtom_subscribe(World, a, s) EXCEPT !.gh[a].subOps = SubOps(a),
                                                      !.env.arg = s])
    /\ op' = [name |-> "subscribe", cell |-> a, n |-> 0]

AtomSubscribe(a, s) == AtomSubscribeUpTo(a, s, MaxSubs)

AtomUnsubscribe(a, s) ==
    /\ Commit([BaseAtom_unsubscribe(World, a, s) EXCEPT !.gh[a].subOps = SubOps(a),
                                                        !.env.arg = s])
    /\ op' = [name |-> "unsubscribe", cell |-> a, n |-> Count(atom[a].subscribers, s)]

\* ---------------------------------------------------- ReadonlyAtom actions
RoConstruct(start) ==
    /\ ~ro.built
    /\ ~proj.built
    /\ Commit([World EXCEPT !.ro = NewReadonlyAtom(0, start)])
    /\ op' = [name |-> "new", cell |-> "r", n |-> 0]

Starts(w) == Len(w.env.stopCalls)

\* The bounds on what the environment of the ReadonlyAtom is asked to do.
WithinBounds(w) ==
    /\ Starts(w) <= MaxStarts
    /\ \A i \in 1..Starts(w) : w.env.stopCalls[i] <= MaxStopCalls

RoSubscribe(s) ==
    /\ ro.built
    /\ Len(ro.subscribers) < MaxSubs
    /\ LET w == [ReadonlyAtom_subscribe(World, s) EXCEPT !.env.direct = TRUE]
       IN  /\ WithinBounds(w)
           /\ Commit(w)
    /\ op' = [name |-> "subscribe", cell |-> "r", n |-> 0]

RoUnsubscribe(s) ==
    /\ ro.built
    /\ LET w == ReadonlyAtom_unsubscribe(World, s)
       IN  /\ WithinBounds(w)
           /\ Commit(w)
    /\ op' = [name |-> "unsubscribe", cell |-> "r", n |-> Count(ro.subscribers, s)]

\* op.n of a setLive step is 1 when the flag already had the value given.
RoSetLive(isLive) ==
    /\ ro.built
    /\ LET w == [ReadonlyAtom_setLive(World, isLive) EXCEPT !.env.direct = TRUE]
       IN  /\ WithinBounds(w)
           /\ Commit(w)
    /\ op' = [name |-> "setLive", cell |-> "r",
              n |-> IF ro.live = isLive THEN 1 ELSE 0]

\* The closure of a running activation (an interval or a timeout that the
\* starter created) calls the setter it was given.
RoSetter(v) ==
    /\ ro.built
    /\ env.running # {}
    /\ env.sets < MaxRoSets
    /\ Commit(ReadonlyAtom_setter([World EXCEPT !.env.sets = @ + 1], v))
    /\ op' = [name |-> "setter", cell |-> "r", n |-> 0]

\* -------------------------------------------------------- Projector actions
RegularLists == {<<"a1">>, <<"a1", "a2">>}
SourceLists == {<<>>} \cup RegularLists
LazyLists == {<<"r">>, <<"a1", "r">>}

\* new Projector(atoms, projection); op.n is the number of atoms.
ProjConstruct(atoms) ==
    /\ ~proj.built
    /\ InSeq(atoms, "r") => ro.built
    /\ Commit(Projector_constructor(World, atoms))
    /\ op' = [name |-> "new", cell |-> "p", n |-> Len(atoms)]

\* projector(...atoms, projection)
ProjFactory(atoms) ==
    /\ ~proj.built
    /\ InSeq(atoms, "r") => ro.built
    /\ Commit(projector(World, atoms))
    /\ op' = [name |-> "projector", cell |-> "p", n |-> Len(atoms)]

ProjSubscribe(s) ==
    /\ proj.built
    /\ Len(proj.subscribers) < MaxSubs + 1
    /\ LET w == [Projector_subscribe(World, s) EXCEPT !.env.hadSubscriber = TRUE]
       IN  /\ WithinBounds(w)
           /\ Commit(w)
    /\ op' = [name |-> "subscribe", cell |-> "p", n |-> 0]

ProjUnsubscribe(s) ==
    /\ proj.built
    /\ LET w == Projector_unsubscribe(World, s)
       IN  /\ WithinBounds(w)
           /\ Commit(w)
    /\ op' = [name |-> "unsubscribe", cell |-> "p", n |-> Count(proj.subscribers, s)]

\* The owner of the projector calls its public lifecycle methods;
\* env.detached tells that unsubscribeFromAtoms was the last of them.
ProjSubscribeToAtoms ==
    /\ proj.built
    /\ LET w == [Projector_subscribeToAtoms(World) EXCEPT !.env.detached = FALSE]
       IN  /\ WithinBounds(w)
           /\ Commit(w)
    /\ op' = [name |-> "subscribeToAtoms", cell |-> "p", n |-> 0]

ProjUnsubscribeFromAtoms ==
    /\ proj.built
    /\ LET w == [Projector_unsubscribeFromAtoms(World) EXCEPT !.env.detached = TRUE]
       IN  /\ WithinBounds(w)
           /\ Commit(w)
    /\ op' = [name |-> "unsubscribeFromAtoms", cell |-> "p", n |-> 0]

\* ------------------------------------------- lazy Projector actions
LazyConstruct(atoms) ==
    /\ ~lazy.built
    /\ InSeq(atoms, "r") => ro.built
    /\ LET w == LazyProjector_constructor(World, atoms)
       IN  /\ WithinBounds(w)
           /\ Commit(w)
    /\ op' = [name |-> "new", cell |-> "q", n |-> Len(atoms)]

LazySubscribe(s) ==
    /\ lazy.built
    /\ Len(lazy.subscribers) < MaxSubs
    /\ Commit(BaseAtom_subscribe(World, "q", s))
    /\ op' = [name |-> "subscribe", cell |-> "q", n |-> 0]

\* The owner of the lazy projector calls its lifecycle methods.
LazySubscribeToAtoms ==
    /\ lazy.built
    /\ LET w == LazyProjector_subscribeToAtoms(World)
       IN  /\ WithinBounds(w)
           /\ Commit(w)
    /\ op' = [name |-> "subscribeToAtoms", cell |-> "q", n |-> 0]

LazyUnsubscribeFromAtoms ==
    /\ lazy.built
    /\ LET w == LazyProjector_unsubscribeFromAtoms(World)
       IN  /\ WithinBounds(w)
           /\ Commit(w)
    /\ op' = [name |-> "unsubscribeFromAtoms", cell |-> "q", n |-> 0]

\* A client reads `projector.value`.
LazyRead ==
    /\ lazy.built
    /\ Commit(LazyProjector_get(World))
    /\ op' = [name |-> "read", cell |-> "q", n |-> 0]

\* The same client calls made on an eager and on a lazy Projector over the
\* same sources, one right after the other; a read returns both values.
BothConstruct(atoms) ==
    /\ ~proj.built
    /\ ~lazy.built
    /\ Commit(LazyProjector_constructor(Projector_constructor(World, atoms), atoms))
    /\ op' = [name |-> "new", cell |-> "pq", n |-> Len(atoms)]

BothSubscribe(s) ==
    /\ proj.built
    /\ lazy.built
    /\ Len(proj.subscribers) < MaxSubs
    /\ Commit(BaseAtom_subscribe(Projector_subscribe(World, s), "q", s))
    /\ op' = [name |-> "subscribe", cell |-> "pq", n |-> 0]

BothUnsubscribe(s) ==
    /\ proj.built
    /\ lazy.built
    /\ Commit(BaseAtom_unsubscribe(Projector_unsubscribe(World, s), "q", s))
    /\ op' = [name |-> "unsubscribe", cell |-> "pq", n |-> Count(proj.subscribers, s)]

BothRead ==
    /\ proj.built
    /\ lazy.built
    /\ LET w1 == Projector_get(World)
           w2 == LazyProjector_get(w1)
       IN  Commit([w2 EXCEPT !.outcome.returned =
                     <<"values", w1.outcome.returned[2], w2.outcome.returned[2]>>])
    /\ op' = [name |-> "read", cell |-> "pq", n |-> 0]

\* ---------------------------------------------------------- Reactor actions
\* new Reactor(atom, reactions); op.n is the number of keys of the mapping.
ReactorConstruct(a, keys) ==
    /\ ~reactor.built
    /\ Commit(Reactor_constructor(World, a, keys))
    /\ op' = [name |-> "new", cell |-> "x", n |-> Len(keys)]

\* op.n of a react or extract step is 1 when the name is a key of the
\* mapping.
ReactorReact(reactionName) ==
    /\ reactor.built
    /\ UpdateCalls < MaxUpdates
    /\ Commit(Reactor_react(World, reactionName))
    /\ op' = [name |-> "react", cell |-> "x",
              n |-> IF InSeq(reactor.reactionKeys, reactionName) THEN 1 ELSE 0]

ReactorExtract(reactionName) ==
    /\ reactor.built
    /\ Commit(Reactor_extract(World, reactionName))
    /\ op' = [name |-> "extract", cell |-> "x",
              n |-> IF InSeq(reactor.reactionKeys, reactionName) THEN 1 ELSE 0]

ReactorMultiExtract(reactionNames) ==
    /\ reactor.built
    /\ Commit(Reactor_multiExtract(World, reactionNames))
    /\ op' = [name |-> "multiExtract", cell |-> "x", n |-> Len(reactionNames)]

ReactorSubscribe(s) ==
    /\ reactor.built
    /\ Len(reactor.subscribers) < MaxSubs
    /\ Commit(BaseAtom_subscribe(World, "x", s))
    /\ op' = [name |-> "subscribe", cell |-> "x", n |-> 0]

ReactorReleaseAtom ==
    /\ reactor.built
    /\ Commit(Reactor_releaseAtom(World))
    /\ op' = [name |-> "releaseAtom", cell |-> "x", n |-> 0]

\* ---------------------------------------------------------- specifications
\* One Atom with an observer.
NextAtom ==
    \/ \E u \in UpdaterArgs : AtomUpdate("a1", u)
    \/ \E v \in Vals : AtomSet("a1", v)
    \/ \E t \in timers["a1"] : AtomTick("a1", t)
    \/ \E s \in {"s1"} : AtomSubscribe("a1", s)
    \/ \E s \in {"s1"} : AtomUnsubscribe("a1", s)

SpecAtom == Init /\ [][NextAtom]_vars

\* One Atom whose updaters and subscriber may call update themselves.
NextNested ==
    \/ \E u \in UpdaterArgs : AtomUpdate("a1", u)
    \/ \E v \in Vals : AtomSet("a1", v)
    \/ \E t \in timers["a1"] : AtomTick("a1", t)
    \/ \E s \in Updaters : AtomSubscribe("a1", s)

SpecNested == Init /\ [][NextNested]_vars

\* One Atom with a subscriber; some of its updaters throw.
NextThrow ==
    \/ \E u \in {Inc, Throw} : AtomUpdate("a1", [type |-> "function", f |-> u])
    \/ \E c \in Vals : AtomUpdate("a1", [type |-> "value", v |-> c])
    \/ \E t \in timers["a1"] : AtomTick("a1", t)
    \/ \E s \in {"s1"} : AtomSubscribe("a1", s)
    \/ \E s \in {"s1"} : AtomUnsubscribe("a1", s)

SpecThrow == Init /\ [][NextThrow]_vars

\* One Atom on which set is never called; the host runs every timer it has
\* scheduled (a setTimeout(…, 0) callback is not starved).
NextDrain ==
    \/ \E u \in UpdaterArgs : AtomUpdate("a1", u)
    \/ \E t \in timers["a1"] : AtomTick("a1", t)
    \/ \E s \in {"s1"} : AtomSubscribe("a1", s)

TimersRun == WF_vars(\E t \in timers["a1"] : AtomTick("a1", t))

SpecDrain == Init /\ [][NextDrain]_vars /\ TimersRun

\* One ReadonlyAtom with observers.
NextRo ==
    \/ \E k \in Starters : RoConstruct(k)
    \/ \E s \in Observers : RoSubscribe(s)
    \/ \E s \in Observers : RoUnsubscribe(s)
    \/ \E b \in BOOLEAN : RoSetLive(b)
    \/ \E v \in Vals : RoSetter(v)

SpecRo == Init /\ [][NextRo]_vars

\* A Projector over Atoms.
NextProjAtoms ==
    \/ \E l \in SourceLists : ProjConstruct(l)
    \/ \E l \in SourceLists : ProjFactory(l)
    \/ \E s \in {"s1"} : ProjSubscribe(s)
    \/ \E s \in {"s1"} : ProjUnsubscribe(s)
    \/ \E a \in Atoms, v \in Vals : AtomSet(a, v)
    \/ \E a \in Atoms : AtomUpdate(a, [type |-> "function", f |-> Inc])
    \/ \E a \in Atoms : \E t \in timers[a] : AtomTick(a, t)

SpecProjAtoms == Init /\ [][NextProjAtoms]_vars

\* A Projector over a ReadonlyAtom, alone or after an Atom.
NextProjRo ==
    \/ \E k \in Starters : RoConstruct(k)
    \/ \E l \in LazyLists : ProjConstruct(l)
    \/ \E s \in NoOps : ProjSubscribe(s)
    \/ \E s \in NoOps : ProjUnsubscribe(s)
    \/ \E b \in BOOLEAN : RoSetLive(b)
    \/ \E s \in {"n1"} : RoSubscribe(s)
    \/ \E s \in {"n1"} : RoUnsubscribe(s)
    \/ \E v \in Vals : RoSetter(v)

SpecProjRo == Init /\ [][NextProjRo]_vars

\* A Projector over a ReadonlyAtom whose owner manages its subscriptions.
NextProjLife ==
    \/ \E k \in Starters : RoConstruct(k)
    \/ \E l \in LazyLists : ProjConstruct(l)
    \/ \E s \in {"n1"} : ProjSubscribe(s)
    \/ \E s \in {"n1"} : ProjUnsubscribe(s)
    \/ ProjSubscribeToAtoms
    \/ ProjUnsubscribeFromAtoms
    \/ \E v \in Vals : RoSetter(v)

SpecProjLife == Init /\ [][NextProjLife]_vars

\* An eager Projector with an observer and a lazy Projector, both over an
\* Atom and a ReadonlyAtom, whose owners and clients subscribe and
\* unsubscribe in any order.
NextProjOnce ==
    \/ \E k \in {"stopper"} : RoConstruct(k)
    \/ \E l \in LazyLists : ProjConstruct(l)
    \/ \E s \in {"s1"} : ProjSubscribe(s)
    \/ \E s \in {"s1"} : ProjUnsubscribe(s)
    \/ ProjSubscribeToAtoms
    \/ ProjUnsubscribeFromAtoms
    \/ \E l \in {<<"a1", "r">>} : LazyConstruct(l)
    \/ LazySubscribeToAtoms
    \/ LazyUnsubscribeFromAtoms
    \/ \E v \in {1} : AtomSet("a1", v)

SpecProjOnce == Init /\ [][NextProjOnce]_vars

\* One Atom notified several times, with callbacks that subscribe and
\* unsubscribe the observer "s1" while they are being called.
NextPasses ==
    \/ \E s \in {"s1", "unsubS1", "subS1"} : AtomSubscribeUpTo("a1", s, MaxList)
    \/ \E v \in {1} : AtomSetUpTo("a1", v, MaxNotes)

SpecPasses == Init /\ [][NextPasses]_vars

\* A ReadonlyAtom whose starter calls the setter before it returns.
NextRoSync ==
    \/ \E k \in {"sync"} : RoConstruct(k)
    \/ \E s \in {"s1"} : RoSubscribe(s)
    \/ \E s \in {"s1"} : RoUnsubscribe(s)
    \/ \E b \in BOOLEAN : RoSetLive(b)
    \/ \E v \in {0} : RoSetter(v)

SpecRoSync == Init /\ [][NextRoSync]_vars

\* A lazy Projector over Atoms, with a subscriber that reads the value it
\* is called with and one that does not, and clients that read the value.
NextLazy ==
    \/ \E l \in RegularLists : LazyConstruct(l)
    \/ \E s \in {"s1", "n1"} : LazySubscribe(s)
    \/ LazyRead
    \/ \E a \in Atoms, v \in Vals : AtomSetUpTo(a, v, MaxNotes)

SpecLazy == Init /\ [][NextLazy]_vars

\* An eager and a lazy Projector over the same Atoms, used side by side.
NextBoth ==
    \/ \E l \in RegularLists : BothConstruct(l)
    \/ \E s \in {"s1"} : BothSubscribe(s)
    \/ \E s \in {"s1"} : BothUnsubscribe(s)
    \/ BothRead
    \/ \E v \in Vals : AtomSet("a1", v)
    \/ AtomUpdate("a1", [type |-> "function", f |-> Inc])
    \/ \E t \in timers["a1"] : AtomTick("a1", t)

SpecBoth == Init /\ [][NextBoth]_vars

\* One Atom and its subscriber list: callbacks registered several times,
\* removed, and unsubscribe called with null.
NextSubs ==
    \/ \E s \in Observers : AtomSubscribeUpTo("a1", s, MaxList)
    \/ \E s \in Observers \cup {"null"} : AtomUnsubscribe("a1", s)
    \/ \E v \in Vals : AtomSet("a1", v)

SpecSubs == Init /\ [][NextSubs]_vars

\* One Atom whose subscribers subscribe and unsubscribe while they are
\* being notified.
NextReentrant ==
    \/ \E s \in {"s1"} \cup Actors : AtomSubscribeUpTo("a1", s, MaxList)
    \/ \E v \in Vals : AtomSet("a1", v)

SpecReentrant == Init /\ [][NextReentrant]_vars

\* A Reactor over an Atom, both with an observer.
NextReactorObs ==
    \/ \E m \in Mappings \ {<<>>} : ReactorConstruct("a1", m)
    \/ \E k \in ReactionNames : ReactorReact(k)
    \/ \E s \in {"s1"} : ReactorSubscribe(s)
    \/ \E s \in {"s2"} : AtomSubscribe("a1", s)
    \/ ReactorReleaseAtom
    \/ AtomUpdate("a1", [type |-> "function", f |-> Inc])
    \/ \E v \in Vals : AtomSet("a1", v)
    \/ \E t \in timers["a1"] : AtomTick("a1", t)

SpecReactorObs == Init /\ [][NextReactorObs]_vars

\* A Reactor whose reactions are extracted.
NextReactorExtract ==
    \/ \E m \in Mappings : ReactorConstruct("a1", m)
    \/ \E k \in ReactionNames \cup UnknownNames : ReactorExtract(k)
    \/ \E l \in NameLists : ReactorMultiExtract(l)
    \/ \E k \in ReactionNames : ReactorReact(k)
    \/ \E v \in Vals : AtomSet("a1", v)
    \/ \E t \in timers["a1"] : AtomTick("a1", t)

SpecReactorExtract == Init /\ [][NextReactorExtract]_vars

\* A Reactor over an Atom.
NextReactor ==
    \/ \E m \in Mappings : ReactorConstruct("a1", m)
    \/ \E k \in ReactionNames \cup UnknownNames : ReactorReact(k)
    \/ \E k \in UnknownNames : ReactorExtract(k)
    \/ \E s \in {"n1"} : ReactorSubscribe(s)
    \/ ReactorReleaseAtom
    \/ AtomUpdate("a1", [type |-> "function", f |-> Inc])
    \/ \E v \in Vals : AtomSet("a1", v)
    \/ \E t \in timers["a1"] : AtomTick("a1", t)

SpecReactor == Init /\ [][NextReactor]_vars

\* ------------------------------------------------------------- properties
\* The handle in #updateTimeout always names a pending timer.
HandleIsPending ==
    \A a \in Atoms :
        atom[a].updateTimeout # Undefined => atom[a].updateTimeout \in timers[a]

\* The values that subscriber cb has read on cell, one per call, in order.
Seen(cb, cell) ==
    LET calls == SelectSeq(notified, LAMBDA e : e.cb = cb /\ e.cell = cell)
    IN  [i \in 1..Len(calls) |-> calls[i].val]

RECURSIVE SumSeq(_)
SumSeq(s) == IF s = <<>> THEN 0 ELSE Head(s) + SumSeq(Tail(s))

\* Starter and stopper invocations of the ReadonlyAtom so far.
StartCount == Len(env.stopCalls)

StopCount == SumSeq(env.stopCalls)

Drained(a) == atom[a].updaterQueue = <<>> /\ timers[a] = {}

\* The number of submitted updaters that have left the queue of a.
Applied(a) == Len(gh[a].submitted) - Len(atom[a].updaterQueue)

\* C1: N >= 1 updates queued before the first deferred tick, no set, one
\* subscriber registered before them: once the queue has drained the
\* subscriber has been called exactly N times, and at the i-th call it read
\* the first i updaters applied in queue order to the initial value.
C1_EveryUpdateNotifies ==
    LET g == gh["a1"]
        N == Len(g.submitted)
    IN  (/\ N >= 1
         /\ g.sets = 0
         /\ ~g.late
         /\ g.subOps = 0
         /\ Count(atom["a1"].subscribers, "s1") = 1
         /\ Drained("a1"))
        => Seen("s1", "a1") = [i \in 1..N |-> Fold(SubSeq(g.submitted, 1, i), g.init)]

\* C2: after set(v), as long as no update has been issued since, the value
\* is v and no updater is pending: when set returns and after every later
\* deferred tick.
C2_SetWins ==
    \A a \in Atoms :
        (gh[a].sets > 0 /\ gh[a].sinceSet = 0)
        => (atom[a].value = gh[a].lastSet /\ atom[a].updaterQueue = <<>>)

\* A set that dropped a queued updater, followed by a deferred tick.
C2_Witness ==
    /\ gh["a1"].sets > 0
    /\ gh["a1"].sinceSet = 0
    /\ gh["a1"].dropped >= 1
    /\ gh["a1"].ticksSinceSet >= 1
    /\ op.name = "tick"

\* C3: at most one deferred execution (timer) of an Atom is pending.
C3_AtMostOneTimer == \A a \in Atoms : Cardinality(timers[a]) <= 1

\* C4: the starter is never invoked while an earlier invocation is still
\* active, so at most one activation is outstanding at a time.
C4_NoOverlappingStart ==
    ro.start = "stopper" => Cardinality(env.running) <= 1

\* C5: the stopper of each activation is invoked exactly once, when the
\* activation ends, and never for an activation that has already ended.
C5_StopperOncePerActivation ==
    ro.start = "stopper" =>
        \A i \in 1..StartCount :
            env.stopCalls[i] = IF i \in env.running THEN 0 ELSE 1

\* C6: after every completed subscribe, unsubscribe or setLive call the
\* source is active iff it has a subscriber or its live flag is true.
C6_ActiveIffSubscribedOrLive ==
    (ro.built /\ ro.start = "stopper")
    => (env.running # {} <=> (Len(ro.subscribers) > 0 \/ ro.live))

\* C7: on a source that is not live, the subscribe call that takes the
\* subscriber count from 0 to 1 invokes the starter once and the unsubscribe
\* call that takes it back to 0 invokes the stopper once; on a live source
\* an unsubscribe call invokes no stopper and the source keeps running, until
\* setLive(false) with no subscribers left invokes the stopper.
C7_Step ==
    (ro.start = "stopper" /\ op'.cell = "r") =>
        /\ (op'.name = "subscribe" /\ ~ro.live /\ ro.subscribers = <<>>)
            => (/\ StartCount' = StartCount + 1
                /\ StopCount' = StopCount
                /\ env'.running # {}
                /\ Len(ro'.subscribers) = 1)
        /\ (/\ op'.name = "unsubscribe"
            /\ ~ro.live
            /\ ro.subscribers # <<>>
            /\ ro'.subscribers = <<>>)
            => (StopCount' = StopCount + 1 /\ StartCount' = StartCount)
        /\ (op'.name = "unsubscribe" /\ ro.live)
            => (/\ StopCount' = StopCount
                /\ env.running # {}
                /\ env'.running = env.running)
        /\ (op'.name = "setLive" /\ ro.live /\ ~ro'.live /\ ro.subscribers = <<>>)
            => StopCount' = StopCount + 1

C7_LazyStartStop == [][C7_Step]_vars

\* The last subscriber of a live source has been removed, after an earlier
\* activation was ended by its stopper: the source is still running.
C7_Witness ==
    /\ ro.start = "stopper"
    /\ op = [name |-> "unsubscribe", cell |-> "r", n |-> 1]
    /\ ro.live
    /\ ro.subscribers = <<>>
    /\ env.running # {}
    /\ StopCount >= 1

\* C8: after every completed subscribe or unsubscribe call on a Projector
\* with a ReadonlyAtom source (one that has a starter, so that it accepts
\* subscribers), the update handler is registered on that source iff the
\* projector has at least one subscriber.
C8_LazySubscribedIffSubscribers ==
    (/\ proj.built
     /\ InSeq(proj.allAtoms, "r")
     /\ ro.start # "none"
     /\ op.cell = "p"
     /\ op.name \in {"subscribe", "unsubscribe"})
    => (InSeq(ro.subscribers, "upd") <=> Len(proj.subscribers) > 0)

\* C9: a ReadonlyAtom source that was never made live and never subscribed
\* to directly is running exactly while the projector has a subscriber.
C9_RunsWhileProjectorSubscribed ==
    (/\ proj.built
     /\ InSeq(proj.allAtoms, "r")
     /\ ro.start = "stopper"
     /\ ~env.direct)
    => (env.running # {} <=> Len(proj.subscribers) > 0)

\* C10: the value of a Projector over Atoms is the projection of the current
\* source values after construction and after every completed set or
\* deferred tick on an Atom.
C10_ValueIsProjection ==
    (proj.built /\ op.name \in {"new", "set", "tick"})
    => proj.value = Projection(SourceValues(World))

\* C11: when set(v) returns, every registration in the subscriber list of
\* the Atom has been called exactly once by this set, in list order, and at
\* the moment of each call the value was v, the update queue was empty and
\* no deferred execution of the Atom was pending.
C11_SetNotifiesAfterClearing ==
    (op.name = "set" /\ op.cell = "a1") =>
        LET subs == atom["a1"].subscribers
            n == Len(subs)
            k == Len(notified) - n
        IN  /\ op.n = n
            /\ \A i \in 1..n :
                   notified[k + i] =
                       [cb |-> subs[i], cell |-> "a1", val |-> gh["a1"].lastSet,
                        queue |-> 0, pending |-> 0]

\* C12: a call to update leaves the stored value and the subscriber list of
\* the Atom as they were and calls no subscriber before it returns.
C12_Step ==
    op'.name = "update" =>
        /\ atom'[op'.cell].value = atom[op'.cell].value
        /\ atom'[op'.cell].subscribers = atom[op'.cell].subscribers
        /\ notified' = notified

C12_UpdateIsDeferred == [][C12_Step]_vars

\* update has just returned on an Atom with a subscriber, and the updater
\* it queued (the only one pending) would change the value.
C12_Witness ==
    /\ op = [name |-> "update", cell |-> "a1", n |-> 0]
    /\ atom["a1"].subscribers = <<"s1">>
    /\ Len(atom["a1"].updaterQueue) = 1
    /\ Apply(atom["a1"].updaterQueue[1], atom["a1"].value) # atom["a1"].value
    /\ timers["a1"] # {}

\* C13: with no set call, whenever the update queue of an Atom is empty its
\* value is the fold of all updaters submitted so far, in submission order,
\* over the initial value.
C13_DrainedValueIsFold ==
    \A a \in Atoms :
        (gh[a].sets = 0 /\ atom[a].updaterQueue = <<>>)
        => atom[a].value = Fold(gh[a].submitted, gh[a].init)

\* A tick has drained the queue after at least two updates, one of them
\* submitted after an earlier tick, and every deferred execution has run.
C13_Witness ==
    /\ op = [name |-> "tick", cell |-> "a1", n |-> 0]
    /\ gh["a1"].sets = 0
    /\ gh["a1"].late
    /\ Len(gh["a1"].submitted) >= 2
    /\ atom["a1"].value = 2
    /\ Drained("a1")

\* C14: a ReadonlyAtom constructed without a starter keeps the value it was
\* constructed with and an empty subscriber list, and no subscriber of it is
\* ever called, whatever subscribe, unsubscribe and setLive calls are made.
C14_NoStarterIsInert ==
    (ro.built /\ ro.start = "none") =>
        /\ ro.value = NewReadonlyAtom(0, "none").value
        /\ ro.subscribers = <<>>
        /\ env.running = {}
        /\ notified = <<>>

\* subscribe has just returned on a source without a starter that was made
\* live before.
C14_Witness ==
    /\ ro.built
    /\ ro.start = "none"
    /\ ro.live
    /\ op = [name |-> "subscribe", cell |-> "r", n |-> 0]

\* C15: a setLive(b) call on a source whose live flag is already b invokes
\* neither the starter nor the stopper, calls no subscriber and leaves
\* every field of the source as it was.
C15_Step ==
    (op'.name = "setLive" /\ op'.n = 1) =>
        /\ ro' = ro
        /\ env'.running = env.running
        /\ env'.stopCalls = env.stopCalls
        /\ notified' = notified

C15_SetLiveIdempotent == [][C15_Step]_vars

\* setLive(true) has just returned on a running live source that has a
\* stopper and no subscribers.
C15_Witness ==
    /\ op = [name |-> "setLive", cell |-> "r", n |-> 1]
    /\ ro.start = "stopper"
    /\ ro.live
    /\ ro.subscribers = <<>>
    /\ ro.stop # Undefined
    /\ env.running # {}

\* C16: after any subscribe and unsubscribe calls on a Projector its update
\* handler is registered (once) on every regular source, and after every
\* completed change of a regular source, by set or by a deferred update,
\* the value of the projector is the projection of the current source
\* values, whether or not the projector has subscribers.
C16_FollowsRegularSources ==
    proj.built =>
        /\ \A i \in 1..Len(proj.regularAtoms) :
               Count(atom[proj.regularAtoms[i]].subscribers, "upd") = 1
        /\ (op.cell \in Atoms /\ op.name \in {"set", "tick"})
            => proj.value = Projection(SourceValues(World))

\* The update handler is registered on source cell (of the projector).
Registered(cell) == InSeq(Subscribers(World, cell), "upd")

C18_Step ==
    (/\ op'.name = "setter"
     /\ proj.built
     /\ InSeq(proj.allAtoms, "r")
     /\ proj.subscribers = <<>>)
    => proj'.value = proj.value

C18_DeafWithoutSubscribers == [][C18_Step]_vars

\* A projector that had a subscriber and lost it; its ReadonlyAtom source,
\* kept running, has just changed its value and the projector has not.
C18_Witness ==
    /\ op.name = "setter"
    /\ proj.built
    /\ InSeq(proj.allAtoms, "r")
    /\ env.hadSubscriber
    /\ proj.subscribers = <<>>
    /\ env.running # {}
    /\ ro.value = 1
    /\ proj.value = 0

\* C19: constructing a Reactor with an empty reaction mapping throws, and
\* the wrapped atom is as it was: no subscriber added, value, update queue
\* and timers untouched; no Reactor exists afterwards.
C19_Step ==
    (op'.name = "new" /\ op'.cell = "x" /\ op'.n = 0) =>
        /\ outcome'.thrown = "TypeError"
        /\ atom' = atom
        /\ timers' = timers
        /\ notified' = notified
        /\ ~reactor'.built

C19_EmptyMappingFails == [][C19_Step]_vars

\* The construction with an empty mapping has just failed on an atom that
\* has an update pending.
C19_Witness ==
    /\ op = [name |-> "new", cell |-> "x", n |-> 0]
    /\ outcome.thrown = "TypeError"
    /\ atom["a1"].updaterQueue # <<>>
    /\ atom["a1"].subscribers = <<>>
    /\ ~reactor.built

\* C20: react and extract called with a name that is not a key of the
\* reaction mapping both throw, and leave the value, the update queue and
\* the timers of the wrapped atom as they were.
C20_Step ==
    (op'.name \in {"react", "extract"} /\ op'.n = 0) =>
        /\ outcome'.thrown # "none"
        /\ atom' = atom
        /\ timers' = timers

C20_UnknownNameThrows == [][C20_Step]_vars

\* The subscriber calls made by the step, in order.
Appended == SubSeq(notified', Len(notified) + 1, Len(notified'))

\* The number of calls of callback cb with cell among them.
Calls(events, cb, cell) ==
    Len(SelectSeq(events, LAMBDA e : e.cb = cb /\ e.cell = cell))

\* C21: react(name) with a configured name returns with the value of the
\* wrapped atom unchanged; when the atom had no other update pending, its
\* next deferred tick makes the value mutation(value at invocation) and
\* calls every subscriber of the wrapped atom once.
C21_Step ==
    LET a == reactor.atom
    IN  /\ (op'.name = "react" /\ op'.n = 1)
            => (atom'[a].value = atom[a].value /\ notified' = notified)
        /\ (/\ op.name = "react"
            /\ op.n = 1
            /\ Len(atom[a].updaterQueue) = 1
            /\ op'.name = "tick")
            => /\ atom'[a].value = Mutate(env.lastReact.key, env.lastReact.value)
               /\ \A s \in Observers :
                      Calls(Appended, s, a) = Count(atom[a].subscribers, s)

C21_ReactIsDeferred == [][C21_Step]_vars

\* C22: between its construction and releaseAtom(), every completed set and
\* every deferred tick that applies an updater on the wrapped atom calls
\* each registration of the Reactor's subscribers exactly once; once
\* releaseAtom() has returned no step calls a subscriber of the Reactor.
C22_Step ==
    LET a == reactor.atom
        changes == /\ op'.cell = a
                   /\ \/ op'.name = "set"
                      \/ op'.name = "tick" /\ atom[a].updaterQueue # <<>>
    IN  /\ (reactor.built /\ ~env.released /\ changes)
            => \A s \in Observers :
                   Calls(Appended, s, "x") = Count(reactor.subscribers, s)
        /\ env.released
            => \A s \in Observers : Calls(Appended, s, "x") = 0

C22_ForwardsUntilReleased == [][C22_Step]_vars

\* The pairs of the mapping that the last call returned.
ReturnedPairs == IF outcome.returned = <<>> THEN <<>> ELSE outcome.returned[2]

\* C23: all extract calls made so far for a configured name have returned
\* one and the same function, and when multiExtract returns, the function
\* it gives for each requested configured name is that same function.
C23_StableExtraction ==
    /\ \A k \in ReactionNames : Cardinality(env.extracted[k]) <= 1
    /\ op.name = "multiExtract" =>
           \A i \in 1..Len(ReturnedPairs) :
               LET key == ReturnedPairs[i][1]
                   fn == ReturnedPairs[i][2]
               IN  InSeq(reactor.reactionKeys, key) =>
                       /\ fn # <<>>
                       /\ fn[1] = "function"
                       /\ env.extracted[key] \subseteq {fn[2]}

\* multiExtract has just returned both functions of a Reactor, after
\* extract returned each of them and after a reaction was applied by a
\* deferred tick.
C23_Witness ==
    /\ op = [name |-> "multiExtract", cell |-> "x", n |-> 2]
    /\ Len(reactor.reactionKeys) = 2
    /\ \A k \in ReactionNames : env.extracted[k] # {}
    /\ gh["a1"].ticks > 0
    /\ ReturnedPairs[2][2] = <<"function", 1>>

\* C24: unsubscribe(f) on an Atom leaves the subscriber list with every
\* occurrence of f removed and all other entries as they were, in the same
\* order (so nothing changes when f was not registered), and a
\* notification calls only callbacks that are in the list.
C24_Step ==
    /\ (op'.name = "unsubscribe" /\ op'.cell \in Atoms /\ env'.arg # "null") =>
           LET a == op'.cell
               f == env'.arg
           IN  /\ atom'[a].subscribers =
                      SelectSeq(atom[a].subscribers, LAMBDA x : x # f)
               /\ ~InSeq(atom'[a].subscribers, f)
               /\ atom'[a].value = atom[a].value
               /\ notified' = notified
    /\ (op'.name = "set" /\ op'.cell \in Atoms) =>
           \A i \in 1..Len(Appended) :
               InSeq(atom[op'.cell].subscribers, Appended[i].cb)

C24_UnsubscribeRemovesAll == [][C24_Step]_vars

\* unsubscribe has just removed two occurrences of a callback and left the
\* other callback of the list.
C24_Witness ==
    /\ op = [name |-> "unsubscribe", cell |-> "a1", n |-> 2]
    /\ env.arg = "s1"
    /\ atom["a1"].subscribers = <<"s2">>

\* C25: unsubscribe(null) on an Atom leaves it without subscribers, so that
\* a later notification calls no callback.
C25_NullRemovesAll ==
    (op.name = "unsubscribe" /\ op.cell \in Atoms /\ env.arg = "null")
    => atom[op.cell].subscribers = <<>>

\* C26: subscribe appends the callback to the list of the Atom, also when it
\* is in the list already, and a notification (made by set, before set
\* returns) calls the entries of the list one by one in list order, each
\* with the Atom itself, so that a callback is called once per entry.
C26_Step ==
    /\ (op'.name = "subscribe" /\ op'.cell \in Atoms) =>
           atom'[op'.cell].subscribers =
               Append(atom[op'.cell].subscribers, env'.arg)
    /\ (op'.name = "set" /\ op'.cell \in Atoms) =>
           LET a == op'.cell
               subs == atom[a].subscribers
           IN  /\ Len(Appended) = Len(subs)
               /\ \A i \in 1..Len(subs) :
                      /\ Appended[i].cb = subs[i]
                      /\ Appended[i].cell = a
                      /\ Appended[i].val = atom'[a].value

C26_NotifiesInOrder == [][C26_Step]_vars

\* set has just notified a list in which one callback is registered twice,
\* around another one.
C26_Witness ==
    /\ op = [name |-> "set", cell |-> "a1", n |-> 3]
    /\ atom["a1"].subscribers = <<"s2", "s1", "s2">>
    /\ atom["a1"].value = 1
    /\ Len(notified) = 3
    /\ notified[3].cb = "s2"

\* C27: when callbacks subscribe or unsubscribe on the Atom that is calling
\* them, every callback that was in the list when the pass began and is
\* not the one those calls name is called in that pass once for each of
\* its entries: none is skipped and none is called again.
C27_Step ==
    (op'.name = "set" /\ op'.cell \in Atoms) =>
        LET a == op'.cell
            subs == atom[a].subscribers
            targets == {Target(c) : c \in {d \in Actors : InSeq(subs, d)}}
        IN  \A c \in (Observers \cup Actors) \ targets :
                Calls(Appended, c, a) = Count(subs, c)

C27_PassSurvivesListChanges == [][C27_Step]_vars

\* A pass has just called three callbacks: the first removed itself, the
\* second subscribed "s1" and the third removed "s1" again.
C27_Witness ==
    /\ op.name = "set"
    /\ Len(notified) = 3
    /\ notified[1].cb = "unsubSelf"
    /\ notified[2].cb = "subS1"
    /\ notified[3].cb = "unsubS1"
    /\ atom["a1"].subscribers = <<"subS1", "unsubS1">>

\* C28: building a Projector with no source cells, through the projector
\* factory or through the Projector constructor, throws and produces no
\* projector.
C28_ZeroSourcesFail ==
    (op.cell = "p" /\ op.name \in {"projector", "new"} /\ op.n = 0)
    => (outcome.thrown # "none" /\ ~proj.built)

\* C29: updates are applied in the order in which update was called, nested
\* calls included: a deferred tick applies the oldest queued updater, and
\* every update issued during a step (by the caller, by the running updater
\* or by a notified subscriber) is appended behind all that were queued.
C29_Step ==
    LET a == op'.cell
        queue == atom[a].updaterQueue
        issued == SubSeq(gh'[a].submitted, Len(gh[a].submitted) + 1,
                         Len(gh'[a].submitted))
        kept == IF op'.name = "set" THEN <<>>
                ELSE IF op'.name = "tick" /\ queue # <<>> THEN Tail(queue)
                ELSE queue
    IN  a \in Atoms =>
            /\ atom'[a].updaterQueue = kept \o issued
            /\ (op'.name = "tick" /\ queue # <<>>)
               => atom'[a].value = Apply(Head(queue), atom[a].value)

C29_NestedUpdatesKeepOrder == [][C29_Step]_vars

\* A tick has run a re-entrant updater while an update made after it was
\* still queued: the nested update stands behind that one.
C29_Witness ==
    /\ op = [name |-> "tick", cell |-> "a1", n |-> 0]
    /\ Len(gh["a1"].submitted) = 3
    /\ gh["a1"].submitted[1] = IncRe
    /\ gh["a1"].submitted[2] # Inc
    /\ atom["a1"].updaterQueue = <<gh["a1"].submitted[2], Inc>>

\* C30: with no set call and every scheduled deferred execution eventually
\* run, a deferred tick applies exactly one updater when the queue is not
\* empty, and an Atom with queued updaters eventually has an empty queue,
\* no scheduled execution and all submitted updaters applied in order.
C30_Step ==
    (op'.name = "tick" /\ atom["a1"].updaterQueue # <<>>)
    => /\ Applied("a1")' = Applied("a1") + 1
       /\ atom'["a1"].value = Apply(Head(atom["a1"].updaterQueue), atom["a1"].value)

C31_ScheduledIffQueued ==
    \A a \in Atoms : (timers[a] # {}) <=> (atom[a].updaterQueue # <<>>)

\* C32: when an updater throws during a deferred tick, the value is
\* unchanged, no subscriber is notified, and if updaters remain queued a
\* deferred execution is scheduled for them, so they are applied without
\* another call to update.
C32_Step ==
    (op'.name = "tick" /\ outcome'.thrown # "none")
    => /\ atom'[op'.cell].value = atom[op'.cell].value
       /\ notified' = notified
       /\ atom'[op'.cell].updaterQueue = Tail(atom[op'.cell].updaterQueue)
       /\ atom'[op'.cell].updaterQueue # <<>> => timers'[op'.cell] # {}

C32_ThrowKeepsQueueRunning == [][C32_Step]_vars

\* C33: between operations, a Projector that has at least one subscriber
\* holds the projection of the current values of all its sources, the
\* ReadonlyAtom sources included.
C33_SubscribedProjectorInSync ==
    (proj.built /\ Len(proj.subscribers) > 0)
    => proj.value = Projection(SourceValues(World))

\* C34: the update handler of a Projector (of either variant) over
\* pairwise distinct sources is at most once in the subscriber list of each
\* source, whatever subscribe, unsubscribe, subscribeToAtoms and
\* unsubscribeFromAtoms calls are made, and one notification of a source
\* calls each registration of the projector's subscribers at most once.
C34_Step ==
    /\ \A c \in Atoms \cup {"r"} :
           /\ Count(Subscribers(World, c), "upd")' <= 1
           /\ Count(Subscribers(World, c), "inv")' <= 1
    /\ op'.name = "set"
       => Len(notified') - Len(notified) <= Len(proj.subscribers)

C34_HandlerRegisteredOnce == [][C34_Step]_vars

\* subscribeToAtoms has returned on an eager projector with two
\* registrations of its subscriber and both kinds of source, after a source
\* notified it, next to a lazy projector subscribed to the same sources.
C34_Witness ==
    /\ op.name = "subscribeToAtoms"
    /\ op.cell = "p"
    /\ proj.allAtoms = <<"a1", "r">>
    /\ proj.subscribers = <<"s1", "s1">>
    /\ Count(atom["a1"].subscribers, "upd") = 1
    /\ Count(ro.subscribers, "upd") = 1
    /\ lazy.subscribed
    /\ Count(atom["a1"].subscribers, "inv") = 1
    /\ Count(ro.subscribers, "inv") = 1
    /\ Len(notified) >= 2

\* C35: from the return of unsubscribeFromAtoms() until the next call of
\* subscribeToAtoms(), the update handler of the Projector is in no
\* source's subscriber list, whatever subscribe and unsubscribe calls are
\* made on the projector.
C35_StaysDetached ==
    (proj.built /\ env.detached)
    => \A i \in 1..Len(proj.allAtoms) :
           ~InSeq(Subscribers(World, proj.allAtoms[i]), "upd")

\* C36: an eager and a lazy Projector over the same Atoms, given the same
\* calls, have delivered the same values to their subscribers at every
\* point, and every read returns the same value from both.
C36_LazyEquivalentToEager ==
    (proj.built /\ lazy.built)
    => /\ Seen("s1", "p") = Seen("s1", "q")
       /\ op.name = "read" => outcome.returned[2] = outcome.returned[3]

\* C37: the projection function of the lazy Projector runs only when value
\* is read.  A read by a client runs it exactly once if the value has not
\* been read since the last source notification (or since construction)
\* and not at all otherwise; a step that is not a client's read runs it
\* once if a subscriber of the projector read the value during it and not
\* at all otherwise.
C37_Step ==
    lazy'.projected - lazy.projected =
        IF op'.name = "read" THEN (IF lazy.sinceRead THEN 1 ELSE 0)
        ELSE IF Calls(Appended, "s1", "q") > 0 THEN 1
        ELSE 0

C38_Step ==
    LET a == reactor.atom
    IN  /\ (op'.name = "react" /\ op'.n = 1)
           => atom'[a].updaterQueue =
                  Append(atom[a].updaterQueue,
                         [kind |-> "const",
                          n |-> Mutate(env'.lastReact.key, atom[a].value),
                          re |-> FALSE])
        /\ (/\ reactor'.built
            /\ gh'[a].sets = 0
            /\ ~gh'[a].late
            /\ Len(gh'[a].submitted) = 2
            /\ atom'[a].updaterQueue = <<>>)
           => atom'[a].value = Mutate(env'.lastReact.key, gh'[a].init)

C38_ActionsReadValueAtInvocation == [][C38_Step]_vars

\* increment was invoked twice before the first tick and the queue has
\* drained: the value is 1, not 2.
C38_Witness ==
    /\ op.name = "tick"
    /\ reactor.built
    /\ gh["a1"].sets = 0
    /\ ~gh["a1"].late
    /\ Len(gh["a1"].submitted) = 2
    /\ gh["a1"].submitted[1].n = 1
    /\ env.lastReact = [key |-> "increment", value |-> 0]
    /\ atom["a1"].updaterQueue = <<>>
    /\ atom["a1"].value = 1

\* C39: the callbacks called by one notification pass of an Atom are
\* exactly the entries of its subscriber list as it was when the pass
\* began, in that order, whatever the callbacks subscribe or unsubscribe
\* during the pass; the list after the pass is what the next pass calls.
C39_Step ==
    (op'.name = "set" /\ op'.cell \in Atoms) =>
        LET a == op'.cell
            subs == atom[a].subscribers
        IN  /\ Len(Appended) = Len(subs)
            /\ \A i \in 1..Len(subs) :
                   Appended[i].cb = subs[i] /\ Appended[i].cell = a

C39_PassCallsListAtStart == [][C39_Step]_vars

\* Two passes over a list that began as unsubS1, s1, subS1: in the first,
\* s1 was called although unsubS1 had removed it, and the s1 that subS1
\* subscribed was not called; the second pass called it, last.
C39_Witness ==
    /\ op.name = "set"
    /\ Len(notified) = 6
    /\ [i \in 1..6 |-> notified[i].cb] =
           <<"unsubS1", "s1", "subS1", "unsubS1", "subS1", "s1">>
    /\ atom["a1"].subscribers = <<"unsubS1", "subS1", "s1">>

\* C40: when subscribe activates a ReadonlyAtom whose starter calls the
\* setter synchronously, the value the starter set is stored, the callback
\* being subscribed is registered and has not been called; a later setter
\* call calls every registered callback.
C40_Step ==
    /\ (/\ op'.name = "subscribe"
        /\ op'.cell = "r"
        /\ ro.start = "sync"
        /\ ro.subscribers = <<>>
        /\ ~ro.live)
       => /\ Len(env'.stopCalls) = Len(env.stopCalls) + 1
          /\ ro'.value = 1
          /\ Len(ro'.subscribers) = 1
          /\ Appended = <<>>
    /\ (op'.name = "setter" /\ ro.start = "sync")
       => /\ Len(Appended) = Len(ro.subscribers)
          /\ \A i \in 1..Len(ro.subscribers) :
                 /\ Appended[i].cb = ro.subscribers[i]
                 /\ Appended[i].val = ro'.value

C40_SyncStarterMissesNewSubscriber == [][C40_Step]_vars

\* The first call ever of the callback whose subscription started the
\* source: made by a setter call after the starter had set 1.
C40_Witness ==
    /\ op.name = "setter"
    /\ ro.start = "sync"
    /\ ~ro.live
    /\ Len(env.stopCalls) = 1
    /\ ro.subscribers = <<"s1">>
    /\ ro.value = 0
    /\ Len(notified) = 1
    /\ notified[1] = [cb |-> "s1", cell |-> "r", val |-> 0, queue |-> 0, pending |-> 0]
====
